---- MODULE Spec2Model ----
(***************************************************************************)
(* Model of git-repo-importer.py: one run of the command-line importer,    *)
(* from the parsed arguments (main) through GitHubImporter.import_repo to  *)
(* process exit.  Strings whose content the program inspects are sequences *)
(* of one-character strings; every external command (subprocess.run) and   *)
(* every prompt (input) is one step whose outcome the environment chooses. *)
(***************************************************************************)
EXTENDS Integers, Sequences, FiniteSets, TLC

\* Longest generated source URL of the name-derivation specification.
MaxLen == 5

(***************************************************************************)
(* Strings                                                                 *)
(***************************************************************************)

\* Python's None, kept apart from every character sequence (also the empty).
None == <<"None">>

\* Python truthiness of an optional string: None and '' are false.
Truthy(v) == v /= None /\ v /= <<>>

\* a or b
Or(a, b) == IF Truthy(a) THEN a ELSE b

Lowercase == {"a","b","c","d","e","f","g","h","i","j","k","l","m",
              "n","o","p","q","r","s","t","u","v","w","x","y","z"}
Uppercase == {"A","B","C","D","E","F","G","H","I","J","K","L","M",
              "N","O","P","Q","R","S","T","U","V","W","X","Y","Z"}
Digits == {"0","1","2","3","4","5","6","7","8","9"}

\* urllib.parse.scheme_chars
SchemeChars == Lowercase \cup Uppercase \cup Digits \cup {"+", "-", "."}

LowerSeq == <<"a","b","c","d","e","f","g","h","i","j","k","l","m",
              "n","o","p","q","r","s","t","u","v","w","x","y","z">>
UpperSeq == <<"A","B","C","D","E","F","G","H","I","J","K","L","M",
              "N","O","P","Q","R","S","T","U","V","W","X","Y","Z">>

\* str.lower on one character.
LowerChar(c) ==
  IF c \in Uppercase THEN LowerSeq[CHOOSE k \in 1..26 : UpperSeq[k] = c] ELSE c

\* str.lower
Lower(s) == [k \in 1..Len(s) |-> LowerChar(s[k])]

\* s[i:] with a 0-based i, and s[:j] with a 0-based j (0 <= i, j <= len).
From(s, i) == SubSeq(s, i + 1, Len(s))
Upto(s, j) == SubSeq(s, 1, j)

\* s.find(c, start): the 0-based index of the first c at or after start, -1 if none.
FindFrom(s, c, start) ==
  LET hits == {k \in (start + 1)..Len(s) : s[k] = c}
  IN IF hits = {} THEN -1 ELSE (CHOOSE k \in hits : \A j \in hits : k <= j) - 1

Find(s, c) == FindFrom(s, c, 0)

\* s.rfind(c)
RFind(s, c) ==
  LET hits == {k \in 1..Len(s) : s[k] = c}
  IN IF hits = {} THEN -1 ELSE (CHOOSE k \in hits : \A j \in hits : k >= j) - 1

\* s.endswith(suf)
EndsWith(s, suf) ==
  /\ Len(s) >= Len(suf)
  /\ SubSeq(s, Len(s) - Len(suf) + 1, Len(s)) = suf

\* s.rstrip(c): every trailing c removed.
RStrip(s, c) ==
  LET keep == {k \in 1..Len(s) : s[k] /= c}
  IN IF keep = {} THEN <<>>
     ELSE Upto(s, CHOOSE k \in keep : \A j \in keep : k >= j)

\* s.strip(): leading and trailing blanks removed.
Strip(s) ==
  LET keep == {k \in 1..Len(s) : s[k] /= " "}
  IN IF keep = {} THEN <<>>
     ELSE SubSeq(s, CHOOSE k \in keep : \A j \in keep : k <= j,
                    CHOOSE k \in keep : \A j \in keep : k >= j)

\* s.split('/')[-1]: what follows the last '/', the whole of s if it has none.
LastPart(s) == From(s, RFind(s, "/") + 1)

DotGit == <<".", "g", "i", "t">>

(***************************************************************************)
(* urllib.parse.urlparse(url).path                                         *)
(***************************************************************************)

\* urllib.parse.uses_params
UsesParams ==
  { <<>>, <<"f","t","p">>, <<"h","d","l">>, <<"p","r","o","s","p","e","r","o">>,
    <<"h","t","t","p">>, <<"i","m","a","p">>, <<"h","t","t","p","s">>,
    <<"s","h","t","t","p">>, <<"r","t","s","p">>, <<"r","t","s","p","s">>,
    <<"r","t","s","p","u">>, <<"s","i","p">>, <<"s","i","p","s">>,
    <<"m","m","s">>, <<"s","f","t","p">>, <<"t","e","l">> }

\* urlsplit's scheme test: a ':' after a first letter, with scheme characters only before it.
HasScheme(url) ==
  LET i == Find(url, ":")
  IN /\ i > 0
     /\ url[1] \in Lowercase \cup Uppercase
     /\ \A k \in 1..i : url[k] \in SchemeChars

SchemeOf(url) == IF HasScheme(url) THEN Lower(Upto(url, Find(url, ":"))) ELSE <<>>

AfterScheme(url) == IF HasScheme(url) THEN From(url, Find(url, ":") + 1) ELSE url

\* _splitnetloc(url, 2)[1]: the rest from the first of '/', '?', '#' after the '//'.
AfterNetloc(rest) ==
  IF Len(rest) >= 2 /\ Upto(rest, 2) = <<"/", "/">>
  THEN LET ds == {d \in {FindFrom(rest, "/", 2), FindFrom(rest, "?", 2),
                         FindFrom(rest, "#", 2)} : d >= 0}
           delim == IF ds = {} THEN Len(rest)
                    ELSE CHOOSE d \in ds : \A e \in ds : d <= e
       IN From(rest, delim)
  ELSE rest

\* url.split(c, 1)[0] when c is in url, else url.
Before(s, c) == IF Find(s, c) >= 0 THEN Upto(s, Find(s, c)) ELSE s

\* _splitparams(url)[0]
SplitParams(p) ==
  IF Find(p, "/") >= 0
  THEN LET i == FindFrom(p, ";", RFind(p, "/"))
       IN IF i < 0 THEN p ELSE Upto(p, i)
  ELSE Upto(p, Find(p, ";"))

UrlPath(url) ==
  LET p == Before(Before(AfterNetloc(AfterScheme(url)), "#"), "?")
  IN IF SchemeOf(url) \in UsesParams /\ Find(p, ";") >= 0 THEN SplitParams(p) ELSE p

(***************************************************************************)
(* GitHubImporter._extract_repo_name                                       *)
(***************************************************************************)

\* Mutant: no rstrip('/').
StrippedPathNoRstrip(url) ==
  LET path == UrlPath(url)
  IN IF EndsWith(path, DotGit) THEN Upto(path, Len(path) - 4) ELSE path

\* The path after rstrip('/') and the removal of a '.git' ending.
StrippedPath(url) ==
  LET path == RStrip(UrlPath(url), "/")
  IN IF EndsWith(path, DotGit) THEN Upto(path, Len(path) - 4) ELSE path

\* The name the function returns; <<>> stands for the ValueError it raises.
ExtractRepoName(url) == LastPart(StrippedPath(url))

(***************************************************************************)
(* Inputs of a run                                                         *)
(***************************************************************************)

\* 'https://example.com/group/proj.git'
UrlProj == <<"h","t","t","p","s",":","/","/","e","x","a","m","p","l","e",".","c","o","m",
             "/","g","r","o","u","p","/","p","r","o","j",".","g","i","t">>
\* 'https://example.com' (an empty path)
UrlNoPath == <<"h","t","t","p","s",":","/","/","e","x","a","m","p","l","e",".","c","o","m">>
\* 'https://example.com/.git'
UrlDotGit == <<"h","t","t","p","s",":","/","/","e","x","a","m","p","l","e",".","c","o","m",
               "/",".","g","i","t">>
\* 'git@host:u/r.git/' (scp-like, no scheme, trailing slash)
UrlScp == <<"g","i","t","@","h","o","s","t",":","u","/","r",".","g","i","t","/">>

\* 'h://e?g' (a query and no path)
UrlQuery == <<"h",":","/","/","e","?","g">>

SourceUrls == {UrlProj, UrlNoPath, UrlDotGit, UrlScp, UrlQuery}

\* The source URLs given on the command line (--source).
CommandLineUrls == {UrlProj, UrlNoPath, UrlQuery}

Tok == <<"t","o","k">>
Usr == <<"u","s","r">>
Main == <<"m","a","i","n">>
Custom == <<"c","u","s","t","o","m">>

\* Command lines that give token, user and source (argparse gives None for an
\* absent option): the project URL with every branch and name option, the
\* URLs without a path with and without a name, and one with -i on top of
\* everything.
GivenArgs ==
  [token : {Tok}, user : {Usr}, source : {UrlProj},
   branch : {None, <<>>, Main}, name : {None, Custom}, interactive : {FALSE}]
  \cup
  [token : {Tok}, user : {Usr}, source : CommandLineUrls \ {UrlProj},
   branch : {None}, name : {None, Custom}, interactive : {FALSE}]
  \cup
  [token : {Tok}, user : {Usr}, source : {UrlProj},
   branch : {Main}, name : {Custom}, interactive : {TRUE}]

\* Command lines that leave out the user and the source, so that main prompts,
\* with -i or without.
PromptedArgs ==
  [token : {None, Tok}, user : {None}, source : {None},
   branch : {None, Main}, name : {None, Custom}, interactive : {FALSE}]
  \cup
  [token : {None}, user : {None}, source : {None},
   branch : {None}, name : {None}, interactive : {TRUE}]

\* The parsed command line.
ArgSets == GivenArgs \cup PromptedArgs

\* What the user may type at the prompts of the interactive mode, before strip().
TypedToken == {<<>>, Tok}
TypedUser == {<<>>, <<" ">> \o Usr}
TypedSource == {<<>>, <<" ">> \o UrlProj \o <<" ">>}
TypedBranch == {<<>>, Main}
TypedName == {<<" ">>, Custom}

\* Answers to the overwrite prompt, before strip().lower().
Answers == { <<"y","e","s">>, <<" ","Y","E","S"," ">>, <<"n","o">>, <<>> }

\* The process id of the run (os.getpid()).
Pids == {4021}

\* A second import running at the same time, of the same project and under
\* another process id: it has cloned into its own staging directory.
OtherRuns == {[name |-> <<"p","r","o","j">>, pid |-> 4022, stage |-> "cloned"]}

\* Which of the required executables the machine has.
Installations == SUBSET {"git", "curl"}

\* What curl prints for -w "%{http_code}".
HttpStatuses == {"200", "401", "404"}

\* The body of the account lookup, by what json.loads and .get('type') make of it.
UserInfos == {"undecodable", "organization", "user", "no_type", "not_an_object"}

\* The body of the creation response, by what json.loads and "'id' in" make of it.
CreateResults == {"id_and_url", "id_no_url", "no_id", "undecodable", "not_a_container"}

\* What the hosting API answers to the PATCH of the default branch when curl
\* itself exits 0: the field is updated, or the request is rejected (an HTTP
\* error status such as 422 for a branch that does not exist).
PatchResults == {"updated", "rejected"}

(***************************************************************************)
(* State                                                                   *)
(***************************************************************************)

VARIABLES
  args,          \* the parsed command line
  pid,           \* os.getpid()
  installed,     \* the executables 'which' finds on the PATH
  other,         \* a concurrent import on the same machine: its repo_name and pid
  dirExists,     \* a directory exists at /tmp/git-import-<repo_name>-<pid>
  otherDir,      \* the staging directory of the concurrent import exists
  pc,            \* the step the process is at
  token, user, source, branch, name,   \* main's locals
  repo_name, custom_branch, temp_dir,  \* the importer's fields
  dep_i, missing,                      \* _check_dependencies' loop
  token_status, probe_status, answer, user_info, create_result,  \* what came back
  repo_exists, is_org,
  cloned, pushed, \* git clone, git push has succeeded
  patch_result,  \* what the hosting API made of the default-branch PATCH
  outcome,       \* how the run left main or the try block of import_repo
  pending,       \* the status the interpreter will exit with once 'finally' is done
  cleanups,      \* how many times _cleanup was entered
  cleanup_rm,    \* what became of _cleanup's rm -rf
  exitCode,      \* the process exit status, -1 while running
  calls          \* the external commands and prompts issued so far, in order

inputVars == <<args, pid, installed, other>>
fsVars == <<dirExists, otherDir>>
localVars == <<token, user, source, branch, name>>
fieldVars == <<repo_name, custom_branch, temp_dir>>
depVars == <<dep_i, missing>>
seenVars == <<token_status, probe_status, answer, user_info, create_result, repo_exists, is_org>>
stageVars == <<cloned, pushed>>
endVars == <<outcome, pending, cleanups, cleanup_rm, exitCode>>
vars == <<inputVars, fsVars, pc, localVars, fieldVars, depVars, seenVars, stageVars,
          patch_result, endVars, calls>>

\* dependencies = ['git', 'curl']
dependencies == <<"git", "curl">>

\* The decimal digits of a process id.
RECURSIVE Decimal(_)
Decimal(n) ==
  LET d == <<"0","1","2","3","4","5","6","7","8","9">>[(n % 10) + 1]
  IN IF n < 10 THEN <<d>> ELSE Decimal(n \div 10) \o <<d>>

\* f"/tmp/git-import-{self.repo_name}-{os.getpid()}"
TempDirPath(rn, p) ==
  <<"/","t","m","p","/","g","i","t","-","i","m","p","o","r","t","-">> \o rn \o <<"-">> \o Decimal(p)

\* The staging path of the concurrent import.
OtherPath == TempDirPath(other.name, other.pid)

\* The path as the filesystem reads it: a run of slashes counts as one.
RECURSIVE SqueezeFrom(_, _)
SqueezeFrom(s, i) ==
  IF i > Len(s) THEN <<>>
  ELSE (IF i > 1 /\ s[i] = "/" /\ s[i - 1] = "/" THEN <<>> ELSE <<s[i]>>)
       \o SqueezeFrom(s, i + 1)

Squeeze(s) == SqueezeFrom(s, 1)

\* The path q is the path p or lies below it.
Under(q, p) ==
  LET a == Squeeze(q)
      b == Squeeze(p)
  IN \/ a = b
     \/ Len(a) > Len(b) /\ SubSeq(a, 1, Len(b) + 1) = b \o <<"/">>

\* rm -rf p takes with it everything below p.
OtherAfterRm(p) == otherDir /\ ~Under(OtherPath, p)

\* git clone into p creates the directories that lead to p.
OtherAfterClone(p) == otherDir \/ Under(p, OtherPath)

Init ==
  /\ args \in ArgSets
  /\ pid \in Pids
  /\ installed \in Installations
  /\ other \in OtherRuns
  /\ dirExists \in BOOLEAN
  /\ otherDir = TRUE
  /\ pc = "main"
  /\ token = None /\ user = None /\ source = None /\ branch = None /\ name = None
  /\ repo_name = None /\ custom_branch = None /\ temp_dir = None
  /\ dep_i = 1 /\ missing = <<>>
  /\ token_status = "unset" /\ probe_status = "unset" /\ answer = None
  /\ user_info = "unset" /\ create_result = "unset"
  /\ repo_exists = FALSE /\ is_org = FALSE
  /\ cloned = FALSE /\ pushed = FALSE
  /\ patch_result = "unset"
  /\ outcome = "running" /\ pending = 0 /\ cleanups = 0 /\ cleanup_rm = "none"
  /\ exitCode = -1
  /\ calls = <<>>

(***************************************************************************)
(* main                                                                    *)
(***************************************************************************)

\* Leaving main without entering import_repo: no handler, no cleanup.
ExitMain(how, code) ==
  /\ pc' = "exited"
  /\ outcome' = how
  /\ exitCode' = code
  /\ UNCHANGED <<pending, cleanups, cleanup_rm>>

\* if args.interactive or not (args.token and args.user and args.source)
InteractiveMode(a) ==
  a.interactive \/ ~(Truthy(a.token) /\ Truthy(a.user) /\ Truthy(a.source))

\* The status of a process ended by a KeyboardInterrupt nothing catches: CPython
\* 3.8 and later re-raise SIGINT (130 to a shell), earlier ones exit with 1.
UncaughtInterruptStatus == {1, 130}

\* main, the else branch: the options are taken as given.
MainDirect ==
  /\ pc = "main"
  /\ ~InteractiveMode(args)
  /\ token' = args.token /\ user' = args.user /\ source' = args.source
  /\ branch' = args.branch /\ name' = args.name
  /\ pc' = "validate"
  /\ UNCHANGED <<stageVars, patch_result, inputVars, fsVars, fieldVars, depVars, seenVars, endVars, calls>>

\* main, interactive mode: the heading is printed, the prompts follow.
MainInteractive ==
  /\ pc = "main"
  /\ InteractiveMode(args)
  /\ pc' = "ask_token"
  /\ UNCHANGED <<stageVars, patch_result, inputVars, fsVars, localVars, fieldVars, depVars, seenVars,
                 endVars, calls>>

\* token = args.token or input(...).strip()
AskToken ==
  /\ pc = "ask_token"
  /\ IF Truthy(args.token)
     THEN token' = args.token /\ calls' = calls
     ELSE /\ \E t \in TypedToken : token' = Strip(t)
          /\ calls' = Append(calls, "input token")
  /\ pc' = "ask_user"
  /\ UNCHANGED <<stageVars, patch_result, inputVars, fsVars, user, source, branch, name,
                 fieldVars, depVars, seenVars, endVars>>

\* user = args.user or input(...).strip()
AskUser ==
  /\ pc = "ask_user"
  /\ IF Truthy(args.user)
     THEN user' = args.user /\ calls' = calls
     ELSE /\ \E t \in TypedUser : user' = Strip(t)
          /\ calls' = Append(calls, "input user")
  /\ pc' = "ask_source"
  /\ UNCHANGED <<stageVars, patch_result, inputVars, fsVars, token, source, branch, name,
                 fieldVars, depVars, seenVars, endVars>>

\* source = args.source or input(...).strip()
AskSource ==
  /\ pc = "ask_source"
  /\ IF Truthy(args.source)
     THEN source' = args.source /\ calls' = calls
     ELSE /\ \E t \in TypedSource : source' = Strip(t)
          /\ calls' = Append(calls, "input source")
  /\ pc' = "ask_branch"
  /\ UNCHANGED <<stageVars, patch_result, inputVars, fsVars, token, user, branch, name,
                 fieldVars, depVars, seenVars, endVars>>

\* branch = args.branch or input(...).strip() or None
AskBranch ==
  /\ pc = "ask_branch"
  /\ IF Truthy(args.branch)
     THEN branch' = args.branch /\ calls' = calls
     ELSE /\ \E t \in TypedBranch : branch' = Or(Strip(t), None)
          /\ calls' = Append(calls, "input branch")
  /\ pc' = "ask_name"
  /\ UNCHANGED <<stageVars, patch_result, inputVars, fsVars, token, user, source, name,
                 fieldVars, depVars, seenVars, endVars>>

\* name = args.name or input(...).strip() or None
AskName ==
  /\ pc = "ask_name"
  /\ IF Truthy(args.name)
     THEN name' = args.name /\ calls' = calls
     ELSE /\ \E t \in TypedName : name' = Or(Strip(t), None)
          /\ calls' = Append(calls, "input name")
  /\ pc' = "validate"
  /\ UNCHANGED <<stageVars, patch_result, inputVars, fsVars, token, user, source, branch,
                 fieldVars, depVars, seenVars, endVars>>

\* The statements of main at which a prompt may be shown
AskSteps == {"ask_token", "ask_user", "ask_source", "ask_branch", "ask_name"}

\* The option the statement at pc reads before it prompts
AskedOption ==
  CASE pc = "ask_token" -> args.token
    [] pc = "ask_user" -> args.user
    [] pc = "ask_source" -> args.source
    [] pc = "ask_branch" -> args.branch
    [] pc = "ask_name" -> args.name

\* The prompt the statement at pc shows when the option is not given
CurrentPrompt ==
  CASE pc = "ask_token" -> "input token"
    [] pc = "ask_user" -> "input user"
    [] pc = "ask_source" -> "input source"
    [] pc = "ask_branch" -> "input branch"
    [] pc = "ask_name" -> "input name"

\* main, interactive mode: SIGINT while a prompt waits. The prompts are outside
\* every try block, so the KeyboardInterrupt ends the process; the locals
\* assigned so far stay as they are.
MainPromptInterrupt ==
  /\ pc \in AskSteps
  /\ ~Truthy(AskedOption)
  /\ calls' = Append(calls, CurrentPrompt)
  /\ \E code \in UncaughtInterruptStatus : ExitMain("interrupt", code)
  /\ UNCHANGED <<stageVars, patch_result, inputVars, fsVars, localVars, fieldVars, depVars, seenVars>>

\* main, interactive mode: end of input at a prompt (EOFError, uncaught).
MainPromptEOF ==
  /\ pc \in AskSteps
  /\ ~Truthy(AskedOption)
  /\ calls' = Append(calls, CurrentPrompt)
  /\ ExitMain("exception", 1)
  /\ UNCHANGED <<stageVars, patch_result, inputVars, fsVars, localVars, fieldVars, depVars, seenVars>>

\* The statements of main before import_repo is entered
MainSteps == {"main", "validate", "construct"} \cup AskSteps

\* SIGINT in main while no prompt waits (the heading is printed, an option is
\* copied, the inputs are validated, the importer is constructed): uncaught.
MainInterrupt ==
  /\ pc \in MainSteps
  /\ \E code \in UncaughtInterruptStatus : ExitMain("interrupt", code)
  /\ UNCHANGED <<stageVars, patch_result, inputVars, fsVars, localVars, fieldVars, depVars, seenVars,
                 calls>>

\* Mutant: main asks again when a required value is missing.
ValidateInputsAsksAgain ==
  /\ pc = "validate"
  /\ IF Truthy(token) /\ Truthy(user) /\ Truthy(source)
     THEN pc' = "construct" /\ calls' = calls
     ELSE pc' = "main" /\ calls' = <<>>
  /\ UNCHANGED <<stageVars, patch_result, inputVars, fsVars, localVars, fieldVars, depVars, seenVars,
                 endVars>>

\* main, "Validate inputs": token, user and source are required.
ValidateInputs ==
  /\ pc = "validate"
  /\ IF Truthy(token) /\ Truthy(user) /\ Truthy(source)
     THEN pc' = "construct" /\ UNCHANGED endVars
     ELSE ExitMain("invalid_input", 1)
  /\ UNCHANGED <<stageVars, patch_result, inputVars, fsVars, localVars, fieldVars, depVars, seenVars, calls>>

\* Mutant: a default name in place of the ValueError.
DeriveNameFallback(nm, url) == Or(nm, Or(ExtractRepoName(url), <<"r","e","p","o">>))

\* repo_name or self._extract_repo_name(source_url)
DeriveName(nm, url) == Or(nm, ExtractRepoName(url))

\* GitHubImporter(token, user, source, branch, name): the ValueError of
\* _extract_repo_name is raised in main, outside import_repo's handlers.
Construct ==
  /\ pc = "construct"
  /\ IF Truthy(DeriveName(name, source))
     THEN /\ repo_name' = DeriveName(name, source)
          /\ custom_branch' = branch
          /\ temp_dir' = None
          /\ pc' = "deps"
          /\ UNCHANGED endVars
     ELSE /\ ExitMain("no_name", 1)
          /\ UNCHANGED fieldVars
  /\ UNCHANGED <<stageVars, patch_result, inputVars, fsVars, localVars, depVars, seenVars, calls>>

(***************************************************************************)
(* GitHubImporter.import_repo: the try block                               *)
(***************************************************************************)

\* Leaving the try block: normally (code 0), by sys.exit(code), or through one
\* of the two handlers, which both call sys.exit(1). 'finally' comes next.
Leave(how, code) ==
  /\ pc' = "cleanup"
  /\ outcome' = how
  /\ pending' = code
  /\ UNCHANGED <<cleanups, cleanup_rm, exitCode>>

\* A step that found a failing result prints its message and calls
\* sys.exit(code); SIGINT while the message is written is caught by
\* 'except KeyboardInterrupt', whose sys.exit(1) takes the place of sys.exit(code).
LeaveAfterMessage(how, code) == Leave(how, code) \/ Leave("interrupt", 1)

\* The command or prompt the process is waiting for at pc.
CurrentCall ==
  CASE pc = "deps" -> IF dependencies[dep_i] = "git" THEN "which git" ELSE "which curl"
    [] pc = "token" -> "GET /user"
    [] pc = "probe" -> "GET /repos"
    [] pc = "confirm" -> "input overwrite"
    [] pc = "lookup" -> "GET /users"
    [] pc = "create" -> IF is_org THEN "POST /orgs/repos" ELSE "POST /user/repos"
    [] pc = "rm" -> "rm -rf"
    [] pc = "clone" -> "git clone"
    [] pc = "push" -> "git push"
    [] pc = "patch" -> "PATCH /repos"
    [] pc = "cleanup" -> "rm -rf"

Issue == calls' = Append(calls, CurrentCall)

\* Mutant: sys.exit(1) at the first dependency that is missing.
CheckDependencyStopsAtFirst ==
  /\ pc = "deps"
  /\ Issue
  /\ missing' = IF dependencies[dep_i] \in installed
                THEN missing ELSE Append(missing, dependencies[dep_i])
  /\ IF missing' /= <<>>
     THEN dep_i' = dep_i /\ LeaveAfterMessage("missing_dependency", 1)
     ELSE IF dep_i < Len(dependencies)
          THEN dep_i' = dep_i + 1 /\ pc' = "deps" /\ UNCHANGED endVars
          ELSE dep_i' = dep_i /\ pc' = "token" /\ UNCHANGED endVars
  /\ UNCHANGED <<stageVars, patch_result, inputVars, fsVars, localVars, fieldVars, seenVars>>

\* _check_dependencies: one 'which' per dependency; a failing one is recorded
\* and the loop goes on; sys.exit(1) after the loop if any is missing.
CheckDependency ==
  /\ pc = "deps"
  /\ Issue
  /\ missing' = IF dependencies[dep_i] \in installed
                THEN missing ELSE Append(missing, dependencies[dep_i])
  /\ IF dep_i < Len(dependencies)
     THEN dep_i' = dep_i + 1 /\ pc' = "deps" /\ UNCHANGED endVars
     ELSE /\ dep_i' = dep_i
          /\ IF missing' /= <<>>
             THEN LeaveAfterMessage("missing_dependency", 1)
             ELSE pc' = "token" /\ UNCHANGED endVars
  /\ UNCHANGED <<stageVars, patch_result, inputVars, fsVars, localVars, fieldVars, seenVars>>

\* Mutant: only 401 counts as an invalid token.
TokenValidUnless401(st) == st /= "401"

\* not (status_code != "200") in _validate_token
TokenValid(st) == st = "200"

\* _validate_token
ValidateToken ==
  /\ pc = "token"
  /\ Issue
  /\ \E st \in HttpStatuses : token_status' = st
  /\ IF ~TokenValid(token_status')
     THEN LeaveAfterMessage("invalid_token", 1)
     ELSE pc' = "probe" /\ UNCHANGED endVars
  /\ UNCHANGED <<stageVars, patch_result, inputVars, fsVars, localVars, fieldVars, depVars,
                 probe_status, answer, user_info, create_result, repo_exists, is_org>>

\* Mutant: every status but 404 counts as an existing repository.
RepoFoundUnless404(st) == st /= "404"

\* status_code == "200" in _check_repo_exists
RepoFound(st) == st = "200"

\* _check_repo_exists, the lookup
CheckRepoExists ==
  /\ pc = "probe"
  /\ Issue
  /\ \E st \in HttpStatuses : probe_status' = st
  /\ IF RepoFound(probe_status')
     THEN pc' = "confirm" /\ UNCHANGED repo_exists
     ELSE pc' = "lookup" /\ repo_exists' = FALSE
  /\ UNCHANGED <<stageVars, patch_result, inputVars, fsVars, localVars, fieldVars, depVars, endVars,
                 token_status, answer, user_info, create_result, is_org>>

\* Mutant: only an explicit 'no' declines.
DeclinesOnlyNo(a) == Lower(Strip(a)) = <<"n","o">>

\* response != 'yes', for response = input(...).strip().lower()
Declines(a) == Lower(Strip(a)) /= <<"y","e","s">>

\* Mutant: a confirmed overwrite still goes through lookup and creation.
ConfirmOverwriteThenCreate ==
  /\ pc = "confirm"
  /\ Issue
  /\ \E a \in Answers : answer' = a
  /\ IF Declines(answer')
     THEN LeaveAfterMessage("declined", 0) /\ UNCHANGED repo_exists
     ELSE pc' = "lookup" /\ repo_exists' = TRUE /\ UNCHANGED endVars
  /\ UNCHANGED <<stageVars, patch_result, inputVars, fsVars, localVars, fieldVars, depVars,
                 token_status, probe_status, user_info, create_result, is_org>>

\* _check_repo_exists, the prompt after a 200
ConfirmOverwrite ==
  /\ pc = "confirm"
  /\ Issue
  /\ \E a \in Answers : answer' = a
  /\ IF Declines(answer')
     THEN LeaveAfterMessage("declined", 0) /\ UNCHANGED repo_exists
     ELSE pc' = "clone_begin" /\ repo_exists' = TRUE /\ UNCHANGED endVars
  /\ UNCHANGED <<stageVars, patch_result, inputVars, fsVars, localVars, fieldVars, depVars,
                 token_status, probe_status, user_info, create_result, is_org>>

\* Mutant: the except branch sets is_org = True.
IsOrgFailClosed(ui) == ui \in {"organization", "undecodable"}

\* is_org as _create_github_repo sets it from the lookup's body
IsOrg(ui) == ui = "organization"

\* _create_github_repo, the account lookup. A body that decodes to something
\* other than an object has no .get: AttributeError, caught by 'except Exception'.
LookupAccountType ==
  /\ pc = "lookup"
  /\ Issue
  /\ \E ui \in UserInfos : user_info' = ui
  /\ IF user_info' = "not_an_object"
     THEN Leave("exception", 1) /\ UNCHANGED is_org
     ELSE pc' = "create" /\ is_org' = IsOrg(user_info') /\ UNCHANGED endVars
  /\ UNCHANGED <<stageVars, patch_result, inputVars, fsVars, localVars, fieldVars, depVars,
                 token_status, probe_status, answer, create_result, repo_exists>>

\* Mutant: import_repo ignores what _create_github_repo returns.
CreateRepoIgnoringResult ==
  /\ pc = "create"
  /\ Issue
  /\ \E r \in CreateResults : create_result' = r
  /\ pc' = "clone_begin"
  /\ UNCHANGED <<stageVars, patch_result, inputVars, fsVars, localVars, fieldVars, depVars,
                 token_status, probe_status, answer, user_info, repo_exists, is_org, endVars>>

\* _create_github_repo, the creation request and its verdict; import_repo
\* calls sys.exit(1) when it returns False.
CreateRepo ==
  /\ pc = "create"
  /\ Issue
  /\ \E r \in CreateResults : create_result' = r
  /\ CASE create_result' = "id_and_url" -> pc' = "clone_begin" /\ UNCHANGED endVars
       [] create_result' \in {"no_id", "undecodable"} -> LeaveAfterMessage("create_failed", 1)
       [] OTHER -> Leave("exception", 1)
  /\ UNCHANGED <<stageVars, patch_result, inputVars, fsVars, localVars, fieldVars, depVars,
                 token_status, probe_status, answer, user_info, repo_exists, is_org>>

\* _clone_source_repo: the staging path is assigned and looked up
CloneBegin ==
  /\ pc = "clone_begin"
  /\ temp_dir' = TempDirPath(repo_name, pid)
  /\ pc' = IF dirExists THEN "rm" ELSE "clone"
  /\ UNCHANGED <<stageVars, patch_result, inputVars, fsVars, localVars, repo_name, custom_branch, depVars,
                 seenVars, endVars, calls>>

\* _clone_source_repo: rm -rf of a directory found at the staging path
RemoveStale ==
  /\ pc = "rm"
  /\ Issue
  /\ dirExists' = FALSE
  /\ otherDir' = OtherAfterRm(temp_dir)
  /\ pc' = "clone"
  /\ UNCHANGED <<stageVars, patch_result, inputVars, localVars, fieldVars, depVars, seenVars, endVars>>

\* _clone_source_repo: git clone --mirror succeeds; it does not when the
\* destination exists and is not empty (it holds the concurrent import's
\* directory, whose clone created it on the way)
Clone ==
  /\ pc = "clone"
  /\ ~(dirExists /\ otherDir /\ Under(OtherPath, temp_dir))
  /\ Issue
  /\ dirExists' = TRUE
  /\ otherDir' = OtherAfterClone(temp_dir)
  /\ cloned' = TRUE
  /\ pc' = "push"
  /\ UNCHANGED <<pushed, patch_result, inputVars, localVars, fieldVars, depVars, seenVars, endVars>>

\* Mutant: a failed clone is reported and the run goes on to the push.
CloneFailedGoesOn ==
  /\ pc = "clone"
  /\ Issue
  /\ dirExists' \in BOOLEAN
  /\ otherDir' = IF dirExists' THEN OtherAfterClone(temp_dir) ELSE otherDir
  /\ pc' = "push"
  /\ UNCHANGED <<stageVars, patch_result, inputVars, localVars, fieldVars, depVars, seenVars, endVars>>

\* _clone_source_repo: git clone fails, sys.exit(1); what it wrote may remain
CloneFailed ==
  /\ pc = "clone"
  /\ Issue
  /\ dirExists' \in BOOLEAN
  /\ otherDir' = IF dirExists' THEN OtherAfterClone(temp_dir) ELSE otherDir
  /\ Leave("clone_failed", 1)
  /\ UNCHANGED <<stageVars, patch_result, inputVars, localVars, fieldVars, depVars, seenVars>>

\* Mutant: the update is skipped for the branch name 'main'.
WantsBranchUpdateUnlessMain(b) == Truthy(b) /\ b /= Main

\* Mutant: 'is not None' in place of truthiness.
WantsBranchUpdateNotNone(b) == b /= None

\* if self.custom_branch
WantsBranchUpdate(b) == Truthy(b)

\* _push_to_github: git push --mirror succeeds
Push ==
  /\ pc = "push"
  /\ Issue
  /\ pushed' = TRUE
  /\ pc' = IF WantsBranchUpdate(custom_branch) THEN "patch" ELSE "report"
  /\ UNCHANGED endVars
  /\ UNCHANGED <<cloned, patch_result, inputVars, fsVars, localVars, fieldVars, depVars, seenVars>>

\* _push_to_github: the PATCH of the default branch; curl -s exits 0 whatever
\* the HTTP status, and the body is not looked at
UpdateDefaultBranch ==
  /\ pc = "patch"
  /\ Issue
  /\ \E r \in PatchResults : patch_result' = r
  /\ pc' = "report"
  /\ UNCHANGED <<stageVars, inputVars, fsVars, localVars, fieldVars, depVars, seenVars, endVars>>

\* import_repo: the success message is printed and the try block ends
Report ==
  /\ pc = "report"
  /\ Leave("success", 0)
  /\ UNCHANGED <<stageVars, patch_result, inputVars, fsVars, localVars, fieldVars, depVars, seenVars,
                 calls>>

\* The steps at which the process waits for a command or a prompt
Waiting == {"deps", "token", "probe", "confirm", "lookup", "create", "rm", "clone",
            "push", "patch"}

\* A command exits non-zero where the step does not handle it (CalledProcessError
\* from _run_command), or the prompt meets end of input (EOFError): 'except Exception'.
StepFails ==
  /\ pc \in Waiting \ {"deps", "clone"}
  /\ Issue
  /\ Leave("exception", 1)
  /\ IF pc = "rm"
     THEN dirExists' = dirExists /\ otherDir' \in {otherDir, OtherAfterRm(temp_dir)}
     ELSE UNCHANGED fsVars
  /\ UNCHANGED <<stageVars, patch_result, inputVars, localVars, fieldVars, depVars, seenVars>>

\* SIGINT while the process waits: 'except KeyboardInterrupt'. An interrupted
\* rm or clone may or may not leave a directory.
Interrupt ==
  /\ pc \in Waiting
  /\ Issue
  /\ Leave("interrupt", 1)
  /\ CASE pc = "rm" ->
            /\ dirExists' \in BOOLEAN
            /\ otherDir' \in {OtherAfterRm(temp_dir)} \cup (IF dirExists' THEN {otherDir} ELSE {})
       [] pc = "clone" ->
            /\ dirExists' \in BOOLEAN
            /\ otherDir' = IF dirExists' THEN OtherAfterClone(temp_dir) ELSE otherDir
       [] OTHER -> UNCHANGED fsVars
  /\ UNCHANGED <<stageVars, patch_result, inputVars, localVars, fieldVars, depVars, seenVars>>

\* The statements of the try block, by the command each is about to issue
TrySteps == Waiting \cup {"clone_begin", "report"}

\* SIGINT in the try block while no command or prompt waits (a message is
\* printed, a result is looked at): 'except KeyboardInterrupt', nothing issued.
InterruptBetween ==
  /\ pc \in TrySteps
  /\ Leave("interrupt", 1)
  /\ UNCHANGED <<stageVars, patch_result, inputVars, fsVars, localVars, fieldVars, depVars, seenVars,
                 calls>>

\* SIGINT while one of the two handlers prints its message: the new
\* KeyboardInterrupt replaces the handler's sys.exit(1) and, after 'finally',
\* ends the process uncaught.
HandlerInterrupt ==
  /\ pc = "cleanup"
  /\ outcome \in {"exception", "interrupt"}
  /\ pending = 1
  /\ pending' \in UncaughtInterruptStatus
  /\ pending' /= pending
  /\ UNCHANGED <<stageVars, patch_result, inputVars, fsVars, pc, localVars, fieldVars, depVars,
                 seenVars, outcome, cleanups, cleanup_rm, exitCode, calls>>

(***************************************************************************)
(* GitHubImporter._cleanup, from 'finally', and process exit               *)
(***************************************************************************)

\* Mutant: the removal does not ask whether a staging path was assigned.
CleanupNeededAnyDirectory == dirExists

\* if self.temp_dir and os.path.exists(self.temp_dir)
CleanupNeeded == temp_dir /= None /\ dirExists

\* nothing to remove: the process exits with the pending status
CleanupSkip ==
  /\ pc = "cleanup"
  /\ ~CleanupNeeded
  /\ cleanups' = cleanups + 1
  /\ exitCode' = pending
  /\ pc' = "exited"
  /\ UNCHANGED <<stageVars, patch_result, inputVars, fsVars, localVars, fieldVars, depVars, seenVars,
                 outcome, pending, cleanup_rm, calls>>

\* rm -rf succeeds
CleanupRemove ==
  /\ pc = "cleanup"
  /\ CleanupNeeded
  /\ Issue
  /\ cleanups' = cleanups + 1
  /\ dirExists' = FALSE
  /\ otherDir' = OtherAfterRm(temp_dir)
  /\ cleanup_rm' = "ok"
  /\ exitCode' = pending
  /\ pc' = "exited"
  /\ UNCHANGED <<stageVars, patch_result, inputVars, localVars, fieldVars, depVars, seenVars, outcome, pending>>

\* rm -rf exits non-zero: CalledProcessError leaves 'finally' uncaught
CleanupRemoveFails ==
  /\ pc = "cleanup"
  /\ CleanupNeeded
  /\ Issue
  /\ cleanups' = cleanups + 1
  /\ dirExists' = dirExists
  /\ otherDir' \in {otherDir, OtherAfterRm(temp_dir)}
  /\ cleanup_rm' = "failed"
  /\ exitCode' = 1
  /\ pc' = "exited"
  /\ UNCHANGED <<stageVars, patch_result, inputVars, localVars, fieldVars, depVars, seenVars,
                 outcome, pending>>

\* SIGINT during rm -rf: KeyboardInterrupt leaves 'finally' uncaught
CleanupInterrupt ==
  /\ pc = "cleanup"
  /\ CleanupNeeded
  /\ Issue
  /\ cleanups' = cleanups + 1
  /\ dirExists' \in BOOLEAN
  /\ otherDir' \in {OtherAfterRm(temp_dir)} \cup (IF dirExists' THEN {otherDir} ELSE {})
  /\ cleanup_rm' = "interrupted"
  /\ \E code \in UncaughtInterruptStatus : exitCode' = code
  /\ pc' = "exited"
  /\ UNCHANGED <<stageVars, patch_result, inputVars, localVars, fieldVars, depVars, seenVars, outcome, pending>>

\* SIGINT in _cleanup before its rm -rf is issued, or with nothing to remove:
\* KeyboardInterrupt leaves 'finally' uncaught, the filesystem stays as it is
CleanupPreempted ==
  /\ pc = "cleanup"
  /\ cleanups' = cleanups + 1
  /\ cleanup_rm' = "preempted"
  /\ \E code \in UncaughtInterruptStatus : exitCode' = code
  /\ pc' = "exited"
  /\ UNCHANGED <<stageVars, patch_result, inputVars, fsVars, localVars, fieldVars, depVars, seenVars,
                 outcome, pending, calls>>

\* SIGINT in _cleanup after its rm -rf succeeded, while 'Cleanup completed' is
\* printed
CleanupRemoveThenInterrupt ==
  /\ pc = "cleanup"
  /\ CleanupNeeded
  /\ Issue
  /\ cleanups' = cleanups + 1
  /\ dirExists' = FALSE
  /\ otherDir' = OtherAfterRm(temp_dir)
  /\ cleanup_rm' = "interrupted_after"
  /\ \E code \in UncaughtInterruptStatus : exitCode' = code
  /\ pc' = "exited"
  /\ UNCHANGED <<stageVars, patch_result, inputVars, localVars, fieldVars, depVars, seenVars,
                 outcome, pending>>

(***************************************************************************)
(* The concurrent import: another process running the same program, whose  *)
(* steps interleave with those of the run while it is anywhere between     *)
(* main and exit, and after it has exited.                                  *)
(***************************************************************************)

\* The staging path of the run itself, assigned or not yet.
OwnPath == TempDirPath(repo_name, pid)

\* The variables no step of the concurrent import changes.
ownVars == <<args, pid, installed, pc, localVars, fieldVars, depVars, seenVars, stageVars,
             patch_result, endVars, calls>>

\* The concurrent import enters _clone_source_repo and looks its path up.
OtherCloneBegin ==
  /\ other.stage = "start"
  /\ other' = [other EXCEPT !.stage = IF otherDir THEN "rm" ELSE "clone"]
  /\ UNCHANGED <<ownVars, fsVars>>

\* Its rm -rf of what it found there, with everything below.
OtherRemoveStale ==
  /\ other.stage = "rm"
  /\ other' = [other EXCEPT !.stage = "clone"]
  /\ otherDir' = FALSE
  /\ dirExists' = (dirExists /\ ~Under(OwnPath, OtherPath))
  /\ UNCHANGED ownVars

\* That rm -rf exits non-zero: what it found stays, entries below it may be
\* gone, and _run_command's exception takes the import to its _cleanup.
OtherRemoveStaleFails ==
  /\ other.stage = "rm"
  /\ other' = [other EXCEPT !.stage = "clone_failed"]
  /\ otherDir' = otherDir
  /\ dirExists' \in {dirExists, dirExists /\ ~Under(OwnPath, OtherPath)}
  /\ UNCHANGED ownVars

\* Its git clone --mirror, which creates the directories that lead to its path
\* and succeeds only where nothing, or an empty directory, is in the way.
OtherClone ==
  /\ other.stage = "clone"
  /\ ~(otherDir /\ dirExists /\ Under(OwnPath, OtherPath))
  /\ other' = [other EXCEPT !.stage = "cloned"]
  /\ otherDir' = TRUE
  /\ dirExists' = (dirExists \/ Under(OtherPath, OwnPath))
  /\ UNCHANGED ownVars

\* Its git clone exits non-zero, sys.exit(1) follows: git leaves nothing at
\* the path itself, the directories leading to it are there if git got as far
\* as creating them.
OtherCloneFailed ==
  /\ other.stage = "clone"
  /\ other' = [other EXCEPT !.stage = "clone_failed"]
  /\ otherDir' = otherDir
  /\ dirExists' \in {dirExists, dirExists \/ Under(OtherPath, OwnPath)}
  /\ UNCHANGED ownVars

\* Its _cleanup, after the push or after a failure: rm -rf of its path if
\* something exists there.
OtherCleanup ==
  /\ other.stage \in {"cloned", "clone_failed"}
  /\ other' = [other EXCEPT !.stage = "done"]
  /\ otherDir' = FALSE
  /\ dirExists' = (dirExists /\ (otherDir => ~Under(OwnPath, OtherPath)))
  /\ UNCHANGED ownVars

\* The rm -rf of its _cleanup exits non-zero (a busy mount point, an entry
\* that cannot be removed): the import ends with its directory still there,
\* entries below it may be gone.
OtherCleanupFails ==
  /\ other.stage \in {"cloned", "clone_failed"}
  /\ otherDir
  /\ other' = [other EXCEPT !.stage = "done"]
  /\ otherDir' = otherDir
  /\ dirExists' \in {dirExists, dirExists /\ ~Under(OwnPath, OtherPath)}
  /\ UNCHANGED ownVars

Next ==
  \/ MainDirect \/ MainInteractive
  \/ AskToken \/ AskUser \/ AskSource \/ AskBranch \/ AskName
  \/ MainPromptInterrupt \/ MainPromptEOF \/ MainInterrupt
  \/ ValidateInputs \/ Construct
  \/ CheckDependency \/ ValidateToken \/ CheckRepoExists \/ ConfirmOverwrite
  \/ LookupAccountType \/ CreateRepo
  \/ CloneBegin \/ RemoveStale \/ Clone \/ CloneFailed
  \/ Push \/ UpdateDefaultBranch \/ Report
  \/ StepFails \/ Interrupt \/ InterruptBetween \/ HandlerInterrupt
  \/ CleanupSkip \/ CleanupRemove \/ CleanupRemoveFails \/ CleanupInterrupt
  \/ CleanupPreempted \/ CleanupRemoveThenInterrupt
  \/ OtherCleanup \/ OtherCleanupFails

Spec == Init /\ [][Next]_vars

\* Three command lines: everything given as options; only the name given, so
\* that the rest is prompted for; and a source from which no name derives.
FairArgs ==
  { [token |-> Tok, user |-> Usr, source |-> UrlProj, branch |-> Main, name |-> Custom,
     interactive |-> FALSE],
    [token |-> None, user |-> None, source |-> None, branch |-> None, name |-> Custom,
     interactive |-> FALSE],
    [token |-> Tok, user |-> Usr, source |-> UrlQuery, branch |-> None, name |-> None,
     interactive |-> FALSE] }

FairInit == Init /\ args \in FairArgs

\* Every command, request and prompt the process waits for returns, and the
\* interpreter goes on to the next statement: no step is put off forever.
FairSpec == FairInit /\ [][Next]_vars /\ WF_vars(Next)

(***************************************************************************)
(* Two imports at once: the clone and cleanup steps of a run that was given *)
(* its repository name with -n, interleaved with those of a concurrent     *)
(* import whose name is any string of at most MaxName characters over      *)
(* NameAlphabet.                                                           *)
(***************************************************************************)

MaxOwnName == 1
MaxName == 4

\* Characters of a name given with -n: the pid's digit, the separator the
\* staging path itself uses, and the path separator.
NameAlphabet == {"1", "-", "/"}

NamesUpTo(n) == UNION {[1..k -> NameAlphabet] : k \in 1..n}

\* Process ids of the two runs; one is a decimal prefix of the other.
PathPids == {1, 11}

\* The names a command line can give with -n / --name: argparse takes every
\* string of the alphabet but '--', which it drops from the arguments.
GivenNames(n) == NamesUpTo(n) \ {<<"-", "-">>}

\* The run has passed the dependency check, the token validation, the probe
\* (404) and the creation, and is about to call _clone_source_repo; the
\* concurrent import, of the higher process id, is about to do the same or has
\* cloned already. A directory that exists has the directories leading to it.
PathInit ==
  /\ name \in GivenNames(MaxOwnName)
  /\ args = [token |-> Tok, user |-> Usr, source |-> UrlProj, branch |-> None,
             name |-> name, interactive |-> FALSE]
  /\ pid \in PathPids
  /\ installed = {"git", "curl"}
  /\ other \in [name : NamesUpTo(MaxName), pid : {q \in PathPids : q > pid},
                stage : {"start", "cloned"}]
  /\ dirExists \in BOOLEAN
  /\ otherDir \in BOOLEAN
  /\ other.stage = "cloned" => otherDir
  /\ otherDir /\ Under(OtherPath, TempDirPath(name, pid)) => dirExists
  /\ dirExists /\ Under(TempDirPath(name, pid), OtherPath) => otherDir
  /\ pc = "clone_begin"
  /\ token = Tok /\ user = Usr /\ source = UrlProj /\ branch = None
  /\ repo_name = name /\ custom_branch = None /\ temp_dir = None
  /\ dep_i = Len(dependencies) /\ missing = <<>>
  /\ token_status = "200" /\ probe_status = "404" /\ answer = None
  /\ user_info = "user" /\ create_result = "id_and_url"
  /\ repo_exists = FALSE /\ is_org = FALSE
  /\ cloned = FALSE /\ pushed = FALSE
  /\ patch_result = "unset"
  /\ outcome = "running" /\ pending = 0 /\ cleanups = 0 /\ cleanup_rm = "none"
  /\ exitCode = -1
  /\ calls = <<"which git", "which curl", "GET /user", "GET /repos", "GET /users",
               "POST /user/repos">>

PathNext ==
  \/ CloneBegin \/ RemoveStale \/ Clone \/ CloneFailed
  \/ Push \/ Report
  \/ StepFails \/ Interrupt \/ InterruptBetween \/ HandlerInterrupt
  \/ CleanupSkip \/ CleanupRemove \/ CleanupRemoveFails \/ CleanupInterrupt
  \/ CleanupPreempted \/ CleanupRemoveThenInterrupt
  \/ OtherCloneBegin \/ OtherRemoveStale \/ OtherRemoveStaleFails
  \/ OtherClone \/ OtherCloneFailed
  \/ OtherCleanup \/ OtherCleanupFails

PathSpec == PathInit /\ [][PathNext]_vars

(***************************************************************************)
(* Name derivation on its own: the constructor applied to every source URL *)
(* of at most MaxLen characters over UrlAlphabet, and to the examples.     *)
(***************************************************************************)

UrlAlphabet == {":", "/", ".", "g", "i", "t", "?"}

GeneratedUrls == UNION {[1..n -> UrlAlphabet] : n \in 1..MaxLen}

NameInit ==
  /\ source \in GeneratedUrls \cup SourceUrls
  /\ name \in {None, <<>>}
  /\ args = [token |-> Tok, user |-> Usr, source |-> source, branch |-> None,
             name |-> name, interactive |-> FALSE]
  /\ pid \in Pids
  /\ installed = {"git", "curl"}
  /\ other \in {[r EXCEPT !.stage = "done"] : r \in OtherRuns}
  /\ dirExists = FALSE
  /\ otherDir = FALSE
  /\ pc = "construct"
  /\ token = Tok /\ user = Usr /\ branch = None
  /\ repo_name = None /\ custom_branch = None /\ temp_dir = None
  /\ dep_i = 1 /\ missing = <<>>
  /\ token_status = "unset" /\ probe_status = "unset" /\ answer = None
  /\ user_info = "unset" /\ create_result = "unset"
  /\ repo_exists = FALSE /\ is_org = FALSE
  /\ cloned = FALSE /\ pushed = FALSE
  /\ patch_result = "unset"
  /\ outcome = "running" /\ pending = 0 /\ cleanups = 0 /\ cleanup_rm = "none"
  /\ exitCode = -1
  /\ calls = <<>>

NameNext == Construct

NameSpec == NameInit /\ [][NameNext]_vars

(***************************************************************************)
(* Properties                                                              *)
(***************************************************************************)

Issued(c) == \E k \in DOMAIN calls : calls[k] = c

Count(c) == Cardinality({k \in DOMAIN calls : calls[k] = c})

\* Every b in the log has an a before it.
Precedes(a, b) ==
  \A j \in DOMAIN calls : calls[j] = b => \E k \in 1..(j - 1) : calls[k] = a

Yes == <<"y","e","s">>

CreationCalls == {"POST /user/repos", "POST /orgs/repos"}

ApiCalls == {"GET /user", "GET /repos", "GET /users", "PATCH /repos"} \cup CreationCalls

VcsCalls == {"git clone", "git push"}

\* Commands and requests, as opposed to prompts.
ExternalCalls == {"which git", "which curl", "rm -rf"} \cup ApiCalls \cup VcsCalls

NoneIssued(S) == \A k \in DOMAIN calls : calls[k] \notin S

Exited == pc = "exited"

\* An interrupt arrived after the run had left the try block: in a handler
\* (the pending status is no longer that of sys.exit) or in _cleanup.
InterruptedAfterTry ==
  \/ pending \notin {0, 1}
  \/ cleanup_rm \in {"interrupted", "preempted", "interrupted_after"}

\* C1 as stated: after process exit the staging directory (the directory at the
\* path the run assigned to temp_dir) does not exist, on every exit path.
C1_StagingGoneOnEveryExit ==
  Exited /\ temp_dir /= None => ~dirExists

\* C2 as stated: exit status 0 only after a completed import or a declined
\* overwrite; every other outcome, an interrupt included, exits with 1.
C2_ExitCodeZeroOrOne ==
  Exited =>
    /\ exitCode = 0 => outcome \in {"success", "declined"}
    /\ outcome \notin {"success", "declined"} => exitCode = 1

\* C3 as stated: after a probe of 200, any answer other than 'yes' ends the run
\* with status 0 and without creation, clone, push or branch update.
C3_AnyOtherAnswerDeclines ==
  Exited /\ probe_status = "200" /\ answer /= None /\ answer /= Yes =>
    /\ exitCode = 0
    /\ NoneIssued(CreationCalls \cup VcsCalls \cup {"PATCH /repos"})

\* C3, amended: after a probe of 200, any answer that is not 'yes' once
\* surrounding blanks are removed and letters lower-cased ends the run with
\* status 0 (unless an interrupt arrives after the answer: while the
\* cancellation message is written, which gives status 1, or during the cleanup
\* that follows); nothing is issued after the prompt.
C3_DeclineExitsZeroWithoutCalls ==
  probe_status = "200" /\ answer /= None /\ Lower(Strip(answer)) /= Yes =>
    /\ pc \in {"cleanup", "exited"}
    /\ outcome \in {"declined", "interrupt"}
    /\ Exited /\ outcome = "declined" /\ ~InterruptedAfterTry => exitCode = 0
    /\ Exited /\ outcome = "interrupt" /\ ~InterruptedAfterTry => exitCode = 1
    /\ calls[Len(calls)] = "input overwrite"
    /\ NoneIssued(CreationCalls \cup VcsCalls \cup {"PATCH /repos", "GET /users", "rm -rf"})

\* C3 witness: the user answered 'no' and the process has exited with 0.
C3_DeclinedRun ==
  Exited /\ probe_status = "200" /\ answer = <<"n","o">> /\ exitCode = 0

\* C4: after a probe status other than 200 the creation step is entered once
\* (its account lookup is issued once unless an interrupt comes first, its
\* creation request at most once, no overwrite prompt), and no clone is issued
\* before it has succeeded.
C4_CreationOnceBeforeClone ==
  probe_status \notin {"unset", "200"} =>
    /\ ~Issued("input overwrite")
    /\ Count("GET /users") <= 1
    /\ pc /= "lookup" /\ outcome /= "interrupt" => Count("GET /users") = 1
    /\ pc = "lookup" => Count("GET /users") = 0
    /\ Count("POST /user/repos") + Count("POST /orgs/repos") <= 1
    /\ Precedes("GET /users", "git clone")
    /\ pc \in {"clone_begin", "rm", "clone"} \/ Issued("git clone") =>
         /\ Count("POST /user/repos") + Count("POST /orgs/repos") = 1
         /\ \E c \in CreationCalls : Precedes(c, "git clone")
         /\ create_result = "id_and_url"

\* C4 witness: the probe said 404, the repository was created and the clone done.
C4_CreatedThenCloned ==
  probe_status = "404" /\ cloned /\ Count("POST /user/repos") = 1

\* C5: after a token validation status other than 200 nothing more is issued
\* and the process exits with 1, through sys.exit(1) of _validate_token or,
\* when an interrupt arrives while the message is written, through that of the
\* interrupt handler (with the status of an uncaught interrupt when one arrives
\* in the handler or during the cleanup that follows).
C5_InvalidTokenStops ==
  token_status \notin {"unset", "200"} =>
    /\ pc \in {"cleanup", "exited"}
    /\ outcome \in {"invalid_token", "interrupt"}
    /\ calls[Len(calls)] = "GET /user"
    /\ Count("GET /user") = 1
    /\ NoneIssued((ApiCalls \ {"GET /user"}) \cup VcsCalls \cup {"rm -rf", "input overwrite"})
    /\ Exited => exitCode /= 0
    /\ Exited /\ ~InterruptedAfterTry => exitCode = 1

\* C5 witness: the validation returned 401 and the process has exited with 1.
C5_Rejected401 ==
  Exited /\ token_status = "401" /\ exitCode = 1

\* C6: a run with a custom branch whose clone and push succeeded has issued
\* exactly one default-branch update by the time it exits, after the one push
\* (none when an interrupt arrives between the push and the update); no update
\* is ever issued before the push has succeeded, and never a second one.
C6_OnePatchAfterPush ==
  /\ Issued("PATCH /repos") => pushed
  /\ Count("PATCH /repos") <= 1
  /\ Truthy(custom_branch) /\ pushed /\ pc = "report" => Count("PATCH /repos") = 1
  /\ Exited /\ Truthy(custom_branch) /\ cloned /\ pushed /\ outcome /= "interrupt" =>
       /\ Count("PATCH /repos") = 1
       /\ Count("git push") = 1
       /\ Precedes("git push", "PATCH /repos")

\* C6 witness: branch 'main', clone, push and update done, success reported.
C6_BranchRunDone ==
  /\ Exited /\ custom_branch = Main /\ cloned /\ pushed /\ outcome = "success"
  /\ Count("PATCH /repos") = 1

\* C7: a run whose custom branch is absent or empty never issues a
\* default-branch update.
C7_NoPatchWithoutBranch ==
  ~Truthy(custom_branch) => ~Issued("PATCH /repos")

\* C7 witness: the branch option was given as the empty string, and the run
\* pushed and reported success.
C7_EmptyBranchRunDone ==
  /\ Exited /\ custom_branch = <<>> /\ pushed /\ outcome = "success"
  /\ ~Issued("PATCH /repos")

\* C8: after an account lookup whose body does not decode, the run goes on to
\* the creation request (unless an interrupt comes first), which goes to the
\* personal endpoint and never to the organization endpoint; the organization
\* endpoint is used only for a decoded type of 'Organization'.
C8_UndecodableLookupGoesPersonal ==
  /\ user_info = "undecodable" =>
       /\ ~is_org
       /\ ~Issued("POST /orgs/repos")
       /\ pc = "create" \/ Issued("POST /user/repos") \/ outcome = "interrupt"
  /\ Issued("POST /orgs/repos") => user_info = "organization"

\* C8 witness: the lookup did not decode, the repository was created at the
\* personal endpoint and the clone was done.
C8_UndecodableThenCreated ==
  user_info = "undecodable" /\ Issued("POST /user/repos") /\ cloned

\* The final segment of the URL's path, trailing slashes ignored.
FinalSegment(url) == LastPart(RStrip(UrlPath(url), "/"))

\* A segment without its '.git' ending.
WithoutDotGit(seg) ==
  IF EndsWith(seg, DotGit) THEN SubSeq(seg, 1, Len(seg) - Len(DotGit)) ELSE seg

\* C9 as stated: without an override name, a URL whose path has a non-empty
\* final segment gives that segment, less a '.git' ending, as repository name.
C9_NameIsFinalSegment ==
  pc /= "construct" /\ ~Truthy(name) /\ FinalSegment(source) /= <<>> =>
    repo_name = WithoutDotGit(FinalSegment(source))

\* C9, amended: as stated, for every final segment other than '.git' itself;
\* for the final segment '.git' the derivation fails with the ValueError.
C9_NameIsFinalSegmentUnlessDotGit ==
  pc /= "construct" /\ ~Truthy(name) /\ FinalSegment(source) /= <<>> =>
    IF FinalSegment(source) = DotGit
    THEN Exited /\ outcome = "no_name" /\ repo_name = None
    ELSE pc = "deps" /\ repo_name = WithoutDotGit(FinalSegment(source))

\* C9 witness: 'https://example.com/group/proj.git' gave 'proj'.
C9_ProjDerived ==
  source = UrlProj /\ name = None /\ repo_name = <<"p","r","o","j">>

\* C10: with a source URL of empty path and no override name the run ends in
\* main, before any command or request is issued: with status 1 at the
\* derivation (at the input validation when a required input is empty) unless
\* an interrupt or the end of input ends main first.
C10_EmptyPathFailsBeforeCalls ==
  /\ pc \notin MainSteps
  /\ source /= None /\ UrlPath(source) = <<>> /\ ~Truthy(name)
  =>
  /\ Exited /\ exitCode /= 0
  /\ outcome \notin {"interrupt", "exception"} =>
       /\ exitCode = 1
       /\ outcome = IF Truthy(token) /\ Truthy(user) /\ Truthy(source)
                    THEN "no_name" ELSE "invalid_input"
  /\ repo_name = None /\ cleanups = 0
  /\ NoneIssued(ExternalCalls)

\* C10 witness: 'https://example.com' without a name: the ValueError, status 1,
\* nothing issued.
C10_NoPathRejected ==
  /\ Exited /\ source = UrlNoPath /\ name = None /\ outcome = "no_name"
  /\ exitCode = 1 /\ calls = <<>>

\* C11 as stated: a run ended by an interrupt, at whatever step it arrived (the
\* prompts of main included), has run cleanup exactly once and exits non-zero.
C11_InterruptCleansOnce ==
  Exited /\ outcome = "interrupt" => cleanups = 1 /\ exitCode /= 0

\* The place of a call in the order of import_repo's try block; 0 for the
\* prompts of main, which come before it.
StepRank(c) ==
  CASE c = "which git" -> 1
    [] c = "which curl" -> 2
    [] c = "GET /user" -> 3
    [] c = "GET /repos" -> 4
    [] c \in {"input overwrite", "GET /users"} -> 5
    [] c \in CreationCalls -> 6
    [] c = "rm -rf" -> 7
    [] c = "git clone" -> 8
    [] c = "git push" -> 9
    [] c = "PATCH /repos" -> 10
    [] OTHER -> 0

\* The calls issued from the try block: without the prompts of main and
\* without the rm -rf of _cleanup.
TryCalls ==
  LET body == SelectSeq(calls, LAMBDA c : StepRank(c) > 0)
  IN IF cleanup_rm \in {"ok", "failed", "interrupted", "interrupted_after"}
     THEN SubSeq(body, 1, Len(body) - 1) ELSE body

\* The order of the steps and what each one presupposes.
StepsInOrder ==
  /\ LET t == TryCalls IN \A i \in 1..(Len(t) - 1) : StepRank(t[i]) < StepRank(t[i + 1])
  /\ Issued("which curl") => Issued("which git")
  /\ Issued("GET /user") => Issued("which curl") /\ missing = <<>>
  /\ Issued("GET /repos") => Issued("GET /user") /\ token_status = "200"
  /\ Issued("input overwrite") => Issued("GET /repos") /\ probe_status = "200"
  /\ Issued("GET /users") => Issued("GET /repos") /\ probe_status \in HttpStatuses \ {"200"}
  /\ (\E c \in CreationCalls : Issued(c)) =>
       Issued("GET /users") /\ user_info \in UserInfos \ {"not_an_object"}
  /\ Issued("git clone") =>
       \/ Issued("input overwrite") /\ Lower(Strip(answer)) = Yes
       \/ (\E c \in CreationCalls : Issued(c)) /\ create_result = "id_and_url"
  /\ Issued("git push") => Issued("git clone") /\ cloned
  /\ Issued("PATCH /repos") => Issued("git push") /\ pushed

\* C12: the calls of the try block occur in the order dependency check, token
\* validation, probe, (confirmation | lookup and creation), clone, push, branch
\* update, each at most once and each only after the one before it succeeded;
\* once the try block is left (failure, exit request or success) no further
\* step is issued and the run never resumes.
C12_StepsInOrderNoRetry ==
  /\ []StepsInOrder
  /\ [][ outcome /= "running" =>
           /\ outcome' = outcome
           /\ pc' \in {"cleanup", "exited"}
           /\ \/ calls' = calls
              \/ pc = "cleanup" /\ calls' = Append(calls, "rm -rf") ]_vars

\* C12 witness: a complete run, stale directory removed, branch updated.
C12_FullRun ==
  /\ Exited /\ outcome = "success"
  /\ TryCalls = <<"which git", "which curl", "GET /user", "GET /repos", "GET /users",
                  "POST /user/repos", "rm -rf", "git clone", "git push", "PATCH /repos">>

\* C13 as stated: when a custom branch was requested and the default-branch
\* update fails, the run does not report success: cleanup runs and the process
\* exits non-zero.
C13_FailedBranchUpdateIsFatal ==
  Exited /\ Issued("PATCH /repos") /\ patch_result = "rejected" =>
    outcome /= "success" /\ cleanups = 1 /\ exitCode /= 0

\* C14: a creation response without an 'id' field, or one that does not parse,
\* ends the run: the try block is left at once (by sys.exit(1), by the
\* exception, or by an interrupt while the failure message is written), neither
\* git clone nor git push is issued, and the process exits non-zero.
C14_CreationWithoutIdIsFatal ==
  create_result \in {"no_id", "undecodable", "not_a_container"} =>
    /\ pc \in {"cleanup", "exited"}
    /\ outcome \in {"create_failed", "exception", "interrupt"}
    /\ NoneIssued(VcsCalls)
    /\ Exited => exitCode /= 0
    /\ Exited /\ ~InterruptedAfterTry => exitCode = 1

\* C14 witness: the run has exited after a response that lacks the identifier.
C14_NoIdRunExited ==
  Exited /\ create_result = "no_id" /\ outcome = "create_failed" /\ exitCode = 1

\* C15: once the probe has returned 200 and the user has answered 'yes', no
\* account lookup and no creation request is ever issued; the run goes on to
\* the clone (staging path, stale removal, git clone) and from there to the
\* push, git clone always preceding git push.
C15_ConfirmedOverwriteSkipsCreation ==
  probe_status = "200" /\ Lower(Strip(answer)) = Yes =>
    /\ NoneIssued(CreationCalls \cup {"GET /users"})
    /\ user_info = "unset" /\ create_result = "unset"
    /\ repo_exists
    /\ outcome = "running" =>
         pc \in {"clone_begin", "rm", "clone", "push", "patch", "report"}
    /\ pc \in {"push", "patch", "report"} => Issued("git clone")
    /\ pc = "report" => Issued("git push")
    /\ Precedes("git clone", "git push")

\* C15 witness: a confirmed overwrite that was cloned and pushed.
C15_ConfirmedRunPushed ==
  /\ Exited /\ outcome = "success" /\ probe_status = "200" /\ answer = Yes
  /\ Issued("git clone") /\ Issued("git push")

\* The required executables the machine lacks.
Lacking == {dependencies[k] : k \in DOMAIN dependencies} \ installed

\* C16: when the dependency check ends the run, every dependency was examined
\* ('which curl' also after git was found missing) and the reported list holds
\* exactly the missing names, each once; and a run on a machine that lacks a
\* dependency issues no API request and no git command and exits non-zero.
C16_AllDependenciesExamined ==
  /\ outcome = "missing_dependency" =>
       /\ Count("which git") = 1 /\ Count("which curl") = 1
       /\ {missing[k] : k \in DOMAIN missing} = Lacking
       /\ Len(missing) = Cardinality(Lacking)
       /\ Lacking /= {}
       /\ pending = 1
       /\ Exited => exitCode /= 0
       /\ Exited /\ ~InterruptedAfterTry => exitCode = 1
  /\ Lacking /= {} =>
       /\ NoneIssued(ApiCalls \cup VcsCalls)
       /\ token_status = "unset"
       /\ Exited => exitCode /= 0
       /\ pc \in {"cleanup", "exited"} /\ Issued("which curl") /\ outcome /= "interrupt" =>
            outcome = "missing_dependency"

\* C16 witness: git is missing, curl was examined all the same, the run is over.
C16_GitMissingCurlExamined ==
  /\ Exited /\ outcome = "missing_dependency" /\ missing = <<"git">>
  /\ calls = <<"which git", "which curl">>

\* The staging path of the run, once assigned, is not that of the concurrent run.
DistinctStagingPaths == temp_dir /= None => Squeeze(temp_dir) /= Squeeze(OtherPath)

\* When git clone is about to be issued nothing exists at the staging path.
CloneIntoFreshPath == pc = "clone" => ~dirExists

\* C17 as stated: for distinct process ids and any repository names the two
\* staging paths differ, no step of the run (a step that leaves the concurrent
\* run where it is) deletes the staging directory the concurrent run has
\* cloned into, and git clone is issued with no directory at the staging path.
C17_ConcurrentRunsIsolated ==
  /\ []DistinctStagingPaths
  /\ []CloneIntoFreshPath
  /\ [][otherDir /\ other.stage = "cloned" /\ other' = other => otherDir']_vars

\* How far the concurrent import has come.
OtherProgress ==
  CASE other.stage = "start" -> 0
    [] other.stage = "rm" -> 1
    [] other.stage = "clone" -> 2
    [] other.stage \in {"cloned", "clone_failed"} -> 3
    [] other.stage = "done" -> 4

\* How far the run has come: every step of the program moves it forward.
OwnProgress ==
  CASE pc = "main" -> 0
    [] pc = "ask_token" -> 1
    [] pc = "ask_user" -> 2
    [] pc = "ask_source" -> 3
    [] pc = "ask_branch" -> 4
    [] pc = "ask_name" -> 5
    [] pc = "validate" -> 6
    [] pc = "construct" -> 7
    [] pc = "deps" -> 7 + dep_i
    [] pc = "token" -> 10
    [] pc = "probe" -> 11
    [] pc \in {"confirm", "lookup"} -> 12
    [] pc = "create" -> 13
    [] pc = "clone_begin" -> 14
    [] pc = "rm" -> 15
    [] pc = "clone" -> 16
    [] pc = "push" -> 17
    [] pc = "patch" -> 18
    [] pc = "report" -> 19
    [] pc = "cleanup" -> IF pending \in {0, 1} THEN 20 ELSE 21
    [] pc = "exited" -> 22

\* How far the two processes have come together.
Progress == OwnProgress + OtherProgress

\* C18: when every command, request and prompt returns, the run reaches
\* process exit; and no step loops, retries or goes back: each step of the
\* run moves it forward and leaves the concurrent import where it is, each
\* step of the concurrent import does the opposite, so an exit comes after at
\* most 22 steps of the run.
C18_EveryRunExits ==
  /\ <>Exited
  /\ [][Progress' > Progress]_vars
  /\ [][OwnProgress' >= OwnProgress /\ OtherProgress' >= OtherProgress]_vars

\* C18 witness: a run that went through every step, branch update included,
\* and has exited.
C18_LongestRunExited ==
  /\ Exited /\ Issued("rm -rf") /\ Issued("PATCH /repos") /\ cleanup_rm = "ok"
  /\ Count("rm -rf") = 2

\* C19: as long as no staging path is assigned (the run has not reached the
\* clone step) no rm -rf is issued, by cleanup or otherwise, and no step
\* changes the filesystem: a directory that exists at the path the run would
\* have used stays, and so does the directory of a concurrent run.
C19_NoRemovalBeforeClone ==
  /\ [](temp_dir = None =>
         NoneIssued({"rm -rf"} \cup VcsCalls) /\ cleanup_rm \in {"none", "preempted"})
  /\ [][temp_dir' = None /\ other' = other => dirExists' = dirExists /\ otherDir' = otherDir]_vars

\* C19 witness: creation failed, cleanup ran and the process exited with the
\* directory at the would-be staging path still there.
C19_EarlyExitLeavesDirectory ==
  /\ Exited /\ outcome = "create_failed" /\ cleanups = 1
  /\ temp_dir = None /\ dirExists /\ otherDir

====
